---- MODULE Spec2Model ----
(***************************************************************************)
(* A model of ocr_worker.py: the subtitle OCR worker that resolves an OCR  *)
(* language, pairs the frame timing of a bitmap subtitle track with the    *)
(* images extracted from it, recognises each image and assembles an SRT.   *)
(*                                                                         *)
(* Strings are sequences of one-character strings, so that lower(),        *)
(* strip(), split() and the number formatting are computed, not assumed.   *)
(* Python's None is the one-element sequence None below.  Times are whole  *)
(* numbers of ticks, TicksPerMilli ticks to the millisecond, so that the   *)
(* rounding of seconds_to_srt_time has values below, at and above a tie.   *)
(***************************************************************************)
EXTENDS Integers, Sequences, FiniteSets, TLC

VARIABLES
    pc,           \* position of the run inside entrypoint/process_job
    job,          \* the job record read from the job JSON
    dry_run,      \* --dry-run
    outFile,      \* what is at job["srt_output"] on disk
    language,     \* process_job's local `language`
    frames,       \* process_job's local `frames` (list of FrameInfo)
    tempdir,      \* whether the TemporaryDirectory exists on disk
    tempFiles,    \* the image files that exist inside it
    images,       \* process_job's local `images`
    rawOcr,       \* what tesseract did for each image recognised so far
    texts,        \* process_job's local `texts`
    srt_content,  \* process_job's local `srt_content`, as lines
    logs,         \* what log() has printed
    outcome,      \* how main() ended: a return code or an exception
    exitCode,     \* the status passed to sys.exit
    requested,    \* resolve_language's argument        (SpecLang)
    tessRun,      \* what `tesseract --list-langs` did    (SpecLang)
    resolution    \* what resolve_language produced      (SpecLang)

pipeVars == <<pc, job, dry_run, outFile, language, frames, tempdir, tempFiles,
              images, rawOcr, texts, srt_content, logs, outcome, exitCode>>
langVars == <<requested, tessRun, resolution>>
vars == <<pc, job, dry_run, outFile, language, frames, tempdir, tempFiles,
          images, rawOcr, texts, srt_content, logs, outcome, exitCode,
          requested, tessRun, resolution>>

---------------------------------------------------------------------------
(* Bounds of the model *)

MaxFrames == 3
MaxImages == 3
TicksPerMilli == 4

---------------------------------------------------------------------------
(* Strings *)

None == <<"<None>">>

Min(S) == CHOOSE x \in S : \A y \in S : x <= y
Max(S) == CHOOSE x \in S : \A y \in S : x >= y

IsSpace(c) == c \in {" ", "\t", "\n"}

Uppers == <<"A","B","C","D","E","F","G","H","I","J","K","L","M",
            "N","O","P","Q","R","S","T","U","V","W","X","Y","Z">>
Lowers == <<"a","b","c","d","e","f","g","h","i","j","k","l","m",
            "n","o","p","q","r","s","t","u","v","w","x","y","z">>

LowerChar(c) ==
    IF \E i \in 1..Len(Uppers) : Uppers[i] = c
    THEN Lowers[CHOOSE i \in 1..Len(Uppers) : Uppers[i] = c]
    ELSE c

\* str.lower()
Lower(s) == IF s = <<>> THEN <<>> ELSE [i \in 1..Len(s) |-> LowerChar(s[i])]

\* str.strip()
Strip(s) ==
    LET keep == {i \in 1..Len(s) : ~IsSpace(s[i])}
    IN  IF keep = {} THEN <<>> ELSE SubSeq(s, Min(keep), Max(keep))

\* str.split(): the maximal runs of non-whitespace characters
RECURSIVE SplitFrom(_, _, _)
SplitFrom(s, i, word) ==
    IF i > Len(s)
    THEN IF word = <<>> THEN <<>> ELSE <<word>>
    ELSE IF IsSpace(s[i])
         THEN (IF word = <<>> THEN <<>> ELSE <<word>>) \o SplitFrom(s, i + 1, <<>>)
         ELSE SplitFrom(s, i + 1, Append(word, s[i]))

Split(s) == SplitFrom(s, 1, <<>>)

\* sep.join(parts)
RECURSIVE Join(_, _)
Join(sep, parts) ==
    IF parts = <<>> THEN <<>>
    ELSE IF Len(parts) = 1 THEN parts[1]
    ELSE parts[1] \o sep \o Join(sep, Tail(parts))

DigitChars == <<"0","1","2","3","4","5","6","7","8","9">>

\* str(n) for n >= 0
RECURSIVE Str(_)
Str(n) == IF n < 10 THEN <<DigitChars[n + 1]>>
          ELSE Str(n \div 10) \o <<DigitChars[(n % 10) + 1]>>

\* f"{n:0w}": zero-padded to at least w digits
RECURSIVE Pad(_, _)
Pad(s, w) == IF Len(s) >= w THEN s ELSE Pad(<<"0">> \o s, w)

---------------------------------------------------------------------------
(* seconds_to_srt_time *)

\* int(round(value * 1000)): Python rounds a tie to the even neighbour
RoundMillis(ticks) ==
    LET q == ticks \div TicksPerMilli
        r == ticks % TicksPerMilli
    IN  IF 2 * r < TicksPerMilli THEN q
        ELSE IF 2 * r > TicksPerMilli THEN q + 1
        ELSE IF q % 2 = 0 THEN q ELSE q + 1

seconds_to_srt_time(value) ==
    LET v       == IF value < 0 THEN 0 ELSE value
        millis  == RoundMillis(v)
        hours   == millis \div 3600000
        m1      == millis - hours * 3600000
        minutes == m1 \div 60000
        m2      == m1 - minutes * 60000
        seconds == m2 \div 1000
        m3      == m2 - seconds * 1000
    IN  Pad(Str(hours), 2) \o <<":">> \o Pad(Str(minutes), 2) \o <<":">>
          \o Pad(Str(seconds), 2) \o <<",">> \o Pad(Str(m3), 3)

---------------------------------------------------------------------------
(* Language resolution *)

DEFAULT_LANG == <<"e","n","g">>
Jpn == <<"j","p","n">>

AliasKeys == { <<"e","n">>, <<"e","n","g","l","i","s","h">>, <<"j","a">>,
               <<"j","p">>, <<"j","a","p","a","n","e","s","e">>, <<"u","n","d">> }

AliasValue(k) ==
    IF k \in { <<"e","n">>, <<"e","n","g","l","i","s","h">>, <<"u","n","d">> }
    THEN DEFAULT_LANG
    ELSE Jpn

\* normalize_language with aliases.get(lang, DEFAULT_LANG): a tag the table
\* does not know becomes the default
normalize_language_default(lang) ==
    IF lang = None \/ lang = <<>> THEN DEFAULT_LANG
    ELSE LET l == Strip(Lower(lang))
         IN  IF l \in AliasKeys THEN AliasValue(l) ELSE DEFAULT_LANG

normalize_language(lang) ==
    IF lang = None \/ lang = <<>> THEN DEFAULT_LANG
    ELSE LET l == Strip(Lower(lang))
         IN  IF l \in AliasKeys THEN AliasValue(l) ELSE l

\* str.lstrip() and str.rstrip()
LStrip(s) ==
    LET keep == {i \in 1..Len(s) : ~IsSpace(s[i])}
    IN  IF keep = {} THEN <<>> ELSE SubSeq(s, Min(keep), Len(s))

RStrip(s) ==
    LET keep == {i \in 1..Len(s) : ~IsSpace(s[i])}
    IN  IF keep = {} THEN <<>> ELSE SubSeq(s, 1, Max(keep))

\* str.strip() of a text of several lines, as its lines: blank lines at
\* either end go, and so does the white space before the first line's text
\* and after the last line's
StripLines(lines) ==
    LET keep == {i \in 1..Len(lines) : Strip(lines[i]) # <<>>}
    IN  IF keep = {} THEN <<>>
        ELSE LET body == SubSeq(lines, Min(keep), Max(keep))
             IN  [i \in 1..Len(body) |->
                    IF i = 1 /\ i = Len(body) THEN Strip(body[i])
                    ELSE IF i = 1 THEN LStrip(body[i])
                    ELSE IF i = Len(body) THEN RStrip(body[i])
                    ELSE body[i]]

RECURSIVE StrippedNonEmpty(_)
StrippedNonEmpty(lines) ==
    IF lines = <<>> THEN <<>>
    ELSE (IF Strip(Head(lines)) # <<>> THEN <<Strip(Head(lines))>> ELSE <<>>)
         \o StrippedNonEmpty(Tail(lines))

\* run: [status : {"ok", "notfound", "failed"}, stdout : Seq(line)]
list_tesseract_languages(run) ==
    IF run.status = "notfound"
    THEN [exc |-> "JobError", value |-> <<>>]
    ELSE IF run.status = "failed"
    THEN [exc |-> "CalledProcessError", value |-> <<>>]
    ELSE LET lines == StripLines(run.stdout)
         IN  IF lines = <<>>
             THEN [exc |-> "none", value |-> <<>>]
             ELSE [exc |-> "none", value |-> StrippedNonEmpty(Tail(lines))]

InSeq(x, s) == \E i \in 1..Len(s) : s[i] = x

\* resolve_language without lines 81-82: the fallback is returned whether or
\* not its data is installed
resolve_language_unchecked(req, run) ==
    LET normalized == normalize_language(req)
        listed     == list_tesseract_languages(run)
        available  == listed.value
    IN  IF listed.exc # "none"
        THEN [exc |-> listed.exc, lang |-> None, warned |-> FALSE, available |-> <<>>]
        ELSE IF InSeq(normalized, available)
        THEN [exc |-> "none", lang |-> normalized, warned |-> FALSE,
              available |-> available]
        ELSE [exc |-> "none", lang |-> DEFAULT_LANG, warned |-> TRUE,
              available |-> available]

resolve_language(req, run) ==
    LET normalized == normalize_language(req)
        listed     == list_tesseract_languages(run)
        available  == listed.value
    IN  IF listed.exc # "none"
        THEN [exc |-> listed.exc, lang |-> None, warned |-> FALSE, available |-> <<>>]
        ELSE IF InSeq(normalized, available)
        THEN [exc |-> "none", lang |-> normalized, warned |-> FALSE,
              available |-> available]
        ELSE IF ~InSeq(DEFAULT_LANG, available)
        THEN [exc |-> "JobError", lang |-> None, warned |-> TRUE,
              available |-> available]
        ELSE [exc |-> "none", lang |-> DEFAULT_LANG, warned |-> TRUE,
              available |-> available]

---------------------------------------------------------------------------
(* The language resolver on its own: every requested tag against every     *)
(* output of `tesseract --list-langs`.                                     *)

HeaderLine == <<"L","i","s","t",":">>
Fra   == <<"f","r","a">>
Latin == <<"L","a","t","i","n">>

RequestedTags ==
    { None, <<>>, <<" ">>,
      <<"e","n">>, <<"E","N">>, <<"e","n","g">>, <<" ","E","n","g","\n">>,
      <<"E","n","g","l","i","s","h">>,
      <<"j","a">>, <<"J","P">>, <<"j","p","n">>, <<"J","a","p","a","n","e","s","e">>,
      <<"u","n","d">>, Fra, <<"F","R","A"," ">>, <<"d","e","u">>,
      Latin, <<"l","a","t","i","n">> }

ListingOutputs ==
    { <<>>,
      <<HeaderLine>>,
      <<HeaderLine, DEFAULT_LANG>>,
      <<HeaderLine, DEFAULT_LANG, Jpn>>,
      <<HeaderLine, Jpn>>,
      <<HeaderLine, Fra, DEFAULT_LANG, <<>> >>,
      <<HeaderLine, <<" ","e","n","g"," ">>, <<>>, Latin, Jpn>>,
      << <<" ">>, HeaderLine, Latin>> }

TessRuns ==
    { [status |-> "notfound", stdout |-> <<>>],
      [status |-> "failed",   stdout |-> <<>>] }
    \cup { [status |-> "ok", stdout |-> out] : out \in ListingOutputs }

NoResolution ==
    [exc |-> "pending", lang |-> None, warned |-> FALSE, available |-> <<>>]

PipeIdle ==
    /\ pc = "idle"
    /\ job = [type |-> None, srt_output |-> None, idx |-> None,
              bitmap_file |-> None, language |-> None]
    /\ dry_run = FALSE
    /\ outFile = [kind |-> "absent", content |-> <<>>]
    /\ language = None
    /\ frames = <<>>
    /\ tempdir = FALSE
    /\ tempFiles = {}
    /\ images = <<>>
    /\ rawOcr = <<>>
    /\ texts = <<>>
    /\ srt_content = <<>>
    /\ logs = {}
    /\ outcome = [kind |-> "running", code |-> 0, exc |-> "none", msg |-> "none"]
    /\ exitCode = -1

InitLang ==
    /\ PipeIdle
    /\ requested \in RequestedTags
    /\ tessRun \in TessRuns
    /\ resolution = NoResolution

\* resolve_language(requested) against the engine as it is
Resolve ==
    /\ resolution.exc = "pending"
    /\ resolution' = resolve_language(requested, tessRun)
    /\ UNCHANGED <<requested, tessRun>>
    /\ UNCHANGED pipeVars

\* resolve_language applied to what a successful resolution returned
ResolveAgain ==
    /\ resolution.exc = "none"
    /\ requested # resolution.lang
    /\ requested' = resolution.lang
    /\ resolution' = resolve_language(resolution.lang, tessRun)
    /\ UNCHANGED tessRun
    /\ UNCHANGED pipeVars

NextLang == Resolve \/ ResolveAgain

SpecLang == InitLang /\ [][NextLang]_vars

---------------------------------------------------------------------------
(* The job pipeline: entrypoint -> main -> process_job *)

Vobsub == <<"v","o","b","s","u","b">>
Pgs    == <<"p","g","s">>
SUPPORTED_TYPES == {Vobsub, Pgs}

OutPath == <<"o",".","s","r","t">>
IdxPath == <<"a",".","i","d","x">>
SupPath == <<"a",".","s","u","p">>

\* The job files the worker is run on
Jobs ==
    { [type |-> Vobsub, srt_output |-> OutPath, idx |-> IdxPath,
       bitmap_file |-> None, language |-> <<"e","n">>],
      [type |-> <<" ","P","G","S","\n">>, srt_output |-> OutPath, idx |-> None,
       bitmap_file |-> SupPath, language |-> None],
      [type |-> <<"s","r","t">>, srt_output |-> None, idx |-> None,
       bitmap_file |-> None, language |-> None],
      [type |-> None, srt_output |-> OutPath, idx |-> IdxPath,
       bitmap_file |-> None, language |-> None],
      [type |-> Vobsub, srt_output |-> <<>>, idx |-> IdxPath,
       bitmap_file |-> None, language |-> None],
      [type |-> Vobsub, srt_output |-> OutPath, idx |-> None,
       bitmap_file |-> SupPath, language |-> None],
      [type |-> Pgs, srt_output |-> OutPath, idx |-> IdxPath,
       bitmap_file |-> <<>>, language |-> None] }

\* What may be at the output path before the run: nothing, a file of an
\* earlier run, or something that is not a regular file (/dev/null, a FIFO)
StaleContent == << <<"s","t","a","l","e">> >>
AbsentFile == [kind |-> "absent", content |-> <<>>]
InitialOutFiles ==
    { AbsentFile,
      [kind |-> "regular", content |-> StaleContent],
      [kind |-> "device", content |-> <<>>] }

FileStatus == {"ok", "missing", "unreadable"}
DirStatus  == {"ok", "missing", "readonly"}

\* `not value` for an optional string
Falsy(value) == value = None \/ value = <<>>

JobType == Strip(Lower(IF Falsy(job.type) THEN <<>> ELSE job.type))

\* The message of the JobError ensure_readable raises, or "none"
ensure_readable(path, status) ==
    IF Falsy(path) THEN "Missing required file path"
    ELSE IF status = "missing" THEN "File not found"
    ELSE IF status = "unreadable" THEN "File not readable"
    ELSE "none"

\* The message of the JobError ensure_writable raises, or "none"
ensure_writable(status) ==
    IF status = "missing" THEN "Output directory does not exist"
    ELSE IF status = "readonly" THEN "Output directory not writable"
    ELSE "none"

Running == [kind |-> "running", code |-> 0, exc |-> "none", msg |-> "none"]

\* process_job returns `code`
Returns(code) ==
    /\ outcome' = [kind |-> "return", code |-> code, exc |-> "none", msg |-> "none"]
    /\ pc' = "returning"

\* an exception leaves process_job
Raises(exc, msg) ==
    /\ outcome' = [kind |-> "raise", code |-> 0, exc |-> exc, msg |-> msg]
    /\ pc' = "returning"

Log(messages) == logs' = logs \cup messages

Init ==
    /\ pc = "start"
    /\ job \in Jobs
    /\ dry_run \in BOOLEAN
    /\ outFile \in InitialOutFiles
    /\ language = None
    /\ frames = <<>>
    /\ tempdir = FALSE
    /\ tempFiles = {}
    /\ images = <<>>
    /\ rawOcr = <<>>
    /\ texts = <<>>
    /\ srt_content = <<>>
    /\ logs = {}
    /\ outcome = Running
    /\ exitCode = -1
    /\ requested = None
    /\ tessRun = [status |-> "ok", stdout |-> <<>>]
    /\ resolution = NoResolution

\* process_job, lines 189-192
CheckType ==
    /\ pc = "start"
    /\ IF JobType \notin SUPPORTED_TYPES
       THEN Log({"warn: unsupported type"}) /\ Returns(2)
       ELSE pc' = "check_output" /\ UNCHANGED <<logs, outcome>>
    /\ UNCHANGED <<job, dry_run, outFile, language, frames, tempdir, tempFiles,
                   images, rawOcr, texts, srt_content, exitCode>>
    /\ UNCHANGED langVars

\* process_job, lines 194-198: the directory is looked at when the code asks
CheckOutputPath ==
    /\ pc = "check_output"
    /\ \E status \in DirStatus :
         /\ status = "missing" => outFile.kind = "absent"
         /\ IF Falsy(job.srt_output)
            THEN Raises("JobError", "Missing srt_output in job")
            ELSE IF ensure_writable(status) # "none"
            THEN Raises("JobError", ensure_writable(status))
            ELSE pc' = "check_input" /\ UNCHANGED outcome
    /\ UNCHANGED <<job, dry_run, outFile, language, frames, tempdir, tempFiles,
                   images, rawOcr, texts, srt_content, logs, exitCode>>
    /\ UNCHANGED langVars

\* process_job, lines 200-213
CheckInputPaths ==
    /\ pc = "check_input"
    /\ \E st1 \in FileStatus, st2 \in FileStatus :
         IF JobType = Vobsub
         THEN IF Falsy(job.idx)
              THEN Raises("JobError", "Missing idx path for vobsub job")
              ELSE IF ensure_readable(job.idx, st1) # "none"
              THEN Raises("JobError", ensure_readable(job.idx, st1))
              ELSE IF ensure_readable(job.idx, st2) # "none"   \* the .sub companion
              THEN Raises("JobError", ensure_readable(job.idx, st2))
              ELSE pc' = "resolve" /\ UNCHANGED outcome
         ELSE IF Falsy(job.bitmap_file)
              THEN Raises("JobError", "Missing bitmap_file path for pgs job")
              ELSE IF ensure_readable(job.bitmap_file, st1) # "none"
              THEN Raises("JobError", ensure_readable(job.bitmap_file, st1))
              ELSE pc' = "resolve" /\ UNCHANGED outcome
    /\ UNCHANGED <<job, dry_run, outFile, language, frames, tempdir, tempFiles,
                   images, rawOcr, texts, srt_content, logs, exitCode>>
    /\ UNCHANGED langVars

\* process_job, lines 215-216
ResolveLanguage ==
    /\ pc = "resolve"
    /\ \E run \in TessRuns :
         LET r == resolve_language(job.language, run)
             said == {"cmd: tesseract --list-langs"}
                     \cup (IF r.warned THEN {"warn: language not installed"} ELSE {})
         IN  IF r.exc # "none"
             THEN /\ Raises(r.exc, IF r.exc = "JobError" /\ run.status = "notfound"
                                   THEN "tesseract not found in PATH"
                                   ELSE IF r.exc = "JobError"
                                   THEN "tesseract language data missing"
                                   ELSE "Command failed: tesseract --list-langs")
                  /\ Log(said)
                  /\ UNCHANGED language
             ELSE /\ language' = r.lang
                  /\ Log(said \cup {"info: using language"})
                  /\ pc' = "load_frames"
                  /\ UNCHANGED outcome
    /\ UNCHANGED <<job, dry_run, outFile, frames, tempdir, tempFiles,
                   images, rawOcr, texts, srt_content, exitCode>>
    /\ UNCHANGED langVars

---------------------------------------------------------------------------
(* Frame timing, image extraction, recognition, assembly *)

\* An optional JSON field: <<>> when the key is missing, <<v>> otherwise
Get(field, default) == IF field = <<>> THEN default ELSE field[1]

\* The frames ffprobe may report, in ticks: an ordinary caption, a frame with
\* no start time that is shorter than the rounding step, and a frame that
\* starts before zero and ends past the hour
FrameChoices ==
    { [pkt_pts_time |-> <<0>>, pkt_duration_time |-> <<1500 * TicksPerMilli>>],
      [pkt_pts_time |-> <<>>,  pkt_duration_time |-> <<1>>],
      [pkt_pts_time |-> <<-3>>,
       pkt_duration_time |-> <<3661001 * TicksPerMilli + 2>>] }

SeqsUpTo(S, n) == UNION { [1..k -> S] : k \in 0..n }

\* load_frames applied to the "frames" array of ffprobe's JSON
load_frames(data) ==
    [i \in 1..Len(data) |->
        LET start    == Get(data[i].pkt_pts_time, 0)
            duration == Get(data[i].pkt_duration_time, 0)
        IN  [start |-> start,
             end   |-> start + (IF duration > 0 THEN duration ELSE 0)]]

\* What tesseract prints for an image
OcrOutputs ==
    { <<" ","\n">>,
      <<" ","H","I","\t"," ","Y","O","U","\n">> }

OcrRuns ==
    { [status |-> "failed", stdout |-> <<>>] }
    \cup { [status |-> "ok", stdout |-> out] : out \in OcrOutputs }

\* ocr_image returning stdout as it came
ocr_image_raw(stdout) == stdout

\* ocr_image applied to tesseract's stdout
ocr_image(stdout) ==
    LET text == Strip(stdout)
    IN  Join(<<" ">>, Split(text))

\* build_srt's loop with the number taken by every pair, emitted or not
RECURSIVE BuildEntriesNumberAll(_, _, _, _)
BuildEntriesNumberAll(fs, ts, i, index) ==
    IF i > Len(fs) \/ i > Len(ts) THEN <<>>
    ELSE IF ts[i] = <<>> THEN BuildEntriesNumberAll(fs, ts, i + 1, index + 1)
    ELSE LET start == seconds_to_srt_time(fs[i].start)
             end   == seconds_to_srt_time(fs[i].end)
         IN  IF start = end THEN BuildEntriesNumberAll(fs, ts, i + 1, index + 1)
             ELSE << <<Str(index),
                       start \o <<" ","-","-",">"," ">> \o end,
                       ts[i]>> >>
                  \o BuildEntriesNumberAll(fs, ts, i + 1, index + 1)

\* `for frame, text in zip(frames, texts)` from pair i on; each entry is the
\* three lines of f"{index}\n{start} --> {end}\n{text}\n"
RECURSIVE BuildEntries(_, _, _, _)
BuildEntries(fs, ts, i, index) ==
    IF i > Len(fs) \/ i > Len(ts) THEN <<>>
    ELSE IF ts[i] = <<>> THEN BuildEntries(fs, ts, i + 1, index)
    ELSE LET start == seconds_to_srt_time(fs[i].start)
             end   == seconds_to_srt_time(fs[i].end)
         IN  IF start = end THEN BuildEntries(fs, ts, i + 1, index)
             ELSE << <<Str(index),
                       start \o <<" ","-","-",">"," ">> \o end,
                       ts[i]>> >>
                  \o BuildEntries(fs, ts, i + 1, index + 1)

\* "\n".join(entries): every entry ends its last line itself, so the joining
\* newline is an empty line between two entries
RECURSIVE JoinEntries(_)
JoinEntries(entries) ==
    IF entries = <<>> THEN <<>>
    ELSE IF Len(entries) = 1 THEN entries[1]
    ELSE entries[1] \o << <<>> >> \o JoinEntries(Tail(entries))

\* build_srt: the lines of the string it returns
build_srt(fs, ts) ==
    StripLines(JoinEntries(BuildEntries(fs, ts, 1, 1)))

\* sorted(...) of the image files of the directory
RECURSIVE Sorted(_)
Sorted(S) == IF S = {} THEN <<>> ELSE <<Min(S)>> \o Sorted(S \ {Min(S)})

\* A directory made with mkdtemp and never removed
LeaveTempDirBehind == UNCHANGED <<tempdir, tempFiles>>

\* TemporaryDirectory.__exit__: the directory and all in it are removed
LeaveTempDir == tempdir' = FALSE /\ tempFiles' = {}

\* process_job, line 223: `if dry_run:` ends the run once the frames are known
StopsAfterFramesNever == FALSE

StopsAfterFrames == dry_run

\* process_job, lines 218-225
LoadFrames ==
    /\ pc = "load_frames"
    /\ \E ok \in BOOLEAN, data \in SeqsUpTo(FrameChoices, MaxFrames) :
         IF ~ok
         THEN /\ data = <<>>
              /\ Raises("CalledProcessError", "Command failed: ffprobe")
              /\ Log({"cmd: ffprobe"})
              /\ UNCHANGED frames
         ELSE /\ frames' = load_frames(data)
              /\ IF frames' = <<>>
                 THEN Log({"cmd: ffprobe", "warn: no frames"}) /\ Returns(2)
                 ELSE IF StopsAfterFrames
                 THEN Log({"cmd: ffprobe", "info: dry run successful"}) /\ Returns(0)
                 ELSE Log({"cmd: ffprobe"}) /\ pc' = "mktemp" /\ UNCHANGED outcome
    /\ UNCHANGED <<job, dry_run, outFile, language, tempdir, tempFiles,
                   images, rawOcr, texts, srt_content, exitCode>>
    /\ UNCHANGED langVars

\* process_job, line 227: TemporaryDirectory.__enter__
EnterTempDir ==
    /\ pc = "mktemp"
    /\ tempdir' = TRUE
    /\ pc' = "extract"
    /\ UNCHANGED <<job, dry_run, outFile, language, frames, tempFiles,
                   images, rawOcr, texts, srt_content, logs, outcome, exitCode>>
    /\ UNCHANGED langVars

\* process_job, lines 234-237, with the comparison the wrong way round
MismatchWarningWhenMore(nImages, nFrames) ==
    IF nImages > nFrames THEN {"warn: frame count mismatch"} ELSE {}

\* process_job, lines 234-237
MismatchWarning(nImages, nFrames) ==
    IF nImages # nFrames THEN {"warn: frame count mismatch"} ELSE {}

\* process_job, lines 228-237: ffmpeg writes n images and succeeds or fails
ExtractImages ==
    /\ pc = "extract"
    /\ \E ok \in BOOLEAN, n \in 0..MaxImages :
         LET written == 1..n
         IN  IF ~ok
             THEN /\ Raises("CalledProcessError", "Command failed: ffmpeg")
                  /\ Log({"cmd: ffmpeg"})
                  /\ LeaveTempDir
                  /\ UNCHANGED images
             ELSE /\ images' = Sorted(written)
                  /\ IF images' = <<>>
                     THEN /\ Log({"cmd: ffmpeg", "warn: no images"})
                          /\ Returns(2)
                          /\ LeaveTempDir
                     ELSE /\ Log({"cmd: ffmpeg"} \cup
                                 MismatchWarning(Len(images'), Len(frames)))
                          /\ pc' = "ocr"
                          /\ tempFiles' = written
                          /\ UNCHANGED <<outcome, tempdir>>
    /\ UNCHANGED <<job, dry_run, outFile, language, frames,
                   rawOcr, texts, srt_content, exitCode>>
    /\ UNCHANGED langVars

\* process_job, line 239
Count == IF Len(images) < Len(frames) THEN Len(images) ELSE Len(frames)

\* process_job, lines 242-246 without line 246: `text` keeps the value the
\* turn before left in it
RecognizedTextKept(run, previous) ==
    IF run.status = "failed" THEN previous ELSE ocr_image(run.stdout)

\* process_job, lines 242-246: the text of one image; `previous` is what the
\* variable `text` held before this turn of the loop
RecognizedText(run, previous) ==
    IF run.status = "failed" THEN <<>> ELSE ocr_image(run.stdout)

\* process_job, lines 241-247: one turn of the recognition loop
RecognizeImage ==
    /\ pc = "ocr"
    /\ Len(texts) < Count
    /\ \E run \in OcrRuns :
         LET image_path == images[Len(texts) + 1]
         IN  /\ rawOcr' = Append(rawOcr, [image |-> image_path,
                                          status |-> run.status,
                                          stdout |-> run.stdout])
             /\ texts' = Append(texts,
                    RecognizedText(run, IF texts = <<>> THEN <<>>
                                        ELSE texts[Len(texts)]))
             /\ Log({"cmd: tesseract"} \cup
                    (IF run.status = "failed" THEN {"error: OCR failed"} ELSE {}))
    /\ UNCHANGED <<pc, job, dry_run, outFile, language, frames, tempdir, tempFiles,
                   images, srt_content, outcome, exitCode>>
    /\ UNCHANGED langVars

\* `not srt_content.strip()`
Blank(lines) == \A i \in 1..Len(lines) : Strip(lines[i]) = <<>>

\* process_job, lines 249-252
Assemble ==
    /\ pc = "ocr"
    /\ Len(texts) = Count
    /\ LET assembled == build_srt(SubSeq(frames, 1, Count), texts)
       IN  /\ srt_content' = assembled
           /\ IF Blank(assembled)
              THEN /\ Log({"warn: OCR produced empty output"})
                   /\ Returns(2)
                   /\ LeaveTempDir
              ELSE /\ pc' = "write"
                   /\ UNCHANGED <<logs, outcome, tempdir, tempFiles>>
    /\ UNCHANGED <<job, dry_run, outFile, language, frames,
                   images, rawOcr, texts, exitCode>>
    /\ UNCHANGED langVars

\* How many lines reach the disk when the write fails part-way: none of
\* them, or all but the last
PartialCuts(n) == {0, n - 1}

\* process_job, lines 254-255 and the end of the `with` block: open(.., "w")
\* creates or truncates a regular file, the write may fail before the end
WriteOutput ==
    /\ pc = "write"
    /\ \E how \in {"open fails", "write fails", "written"},
          cut \in PartialCuts(Len(srt_content)) :
         /\ how # "write fails" => cut = 0
         /\ IF how = "open fails"
            THEN /\ Raises("OSError", "open failed")
                 /\ UNCHANGED outFile
            ELSE IF how = "write fails"
            THEN /\ Raises("OSError", "write failed")
                 /\ outFile' = IF outFile.kind = "device" THEN outFile
                               ELSE [kind |-> "regular",
                                     content |-> SubSeq(srt_content, 1, cut)]
            ELSE /\ outFile' = IF outFile.kind = "device" THEN outFile
                               ELSE [kind |-> "regular", content |-> srt_content]
                 /\ pc' = "validate"
                 /\ UNCHANGED outcome
    /\ LeaveTempDir
    /\ UNCHANGED <<job, dry_run, language, frames,
                   images, rawOcr, texts, srt_content, logs, exitCode>>
    /\ UNCHANGED langVars

\* The message of the JobError validate_output raises, or "none"
validate_output(file) ==
    IF file.kind # "regular" THEN "Output SRT not created"
    ELSE IF file.content = <<>> THEN "Output SRT is empty"
    ELSE "none"

\* process_job, lines 257-259
ValidateOutput ==
    /\ pc = "validate"
    /\ IF validate_output(outFile) # "none"
       THEN Raises("JobError", validate_output(outFile)) /\ UNCHANGED logs
       ELSE Log({"info: wrote SRT"}) /\ Returns(0)
    /\ UNCHANGED <<job, dry_run, outFile, language, frames, tempdir, tempFiles,
                   images, rawOcr, texts, srt_content, exitCode>>
    /\ UNCHANGED langVars

\* entrypoint exiting with the needs-review status on a JobError
ExitStatusJobError2(o) ==
    IF o.kind = "raise"
    THEN CASE o.exc = "JobError" -> 2
           [] o.exc = "CalledProcessError" -> 1
           [] OTHER -> 1
    ELSE o.code

\* entrypoint's try/except: the status sys.exit is called with
ExitStatus(o) ==
    IF o.kind = "raise"
    THEN CASE o.exc = "JobError" -> 1
           [] o.exc = "CalledProcessError" -> 1
           [] OTHER -> 1
    ELSE o.code

\* entrypoint, lines 312-324
Entrypoint ==
    /\ pc = "returning"
    /\ exitCode' = ExitStatus(outcome)
    /\ Log(IF outcome.kind = "raise" THEN {"error"} ELSE {})
    /\ pc' = "exited"
    /\ UNCHANGED <<job, dry_run, outFile, language, frames, tempdir, tempFiles,
                   images, rawOcr, texts, srt_content, outcome>>
    /\ UNCHANGED langVars

Next ==
    \/ CheckType
    \/ CheckOutputPath
    \/ CheckInputPaths
    \/ ResolveLanguage
    \/ LoadFrames
    \/ EnterTempDir
    \/ ExtractImages
    \/ RecognizeImage
    \/ Assemble
    \/ WriteOutput
    \/ ValidateOutput
    \/ Entrypoint

Spec == Init /\ [][Next]_vars

---------------------------------------------------------------------------
(* Reading an assembled SRT back: entry k is the lines 4k-3 (number),      *)
(* 4k-2 (timing) and 4k-1 (text), with an empty line before the next one.  *)

EntryCount(lines) == (Len(lines) + 1) \div 4
NumberLine(lines, k) == lines[4 * k - 3]
TimingLine(lines, k) == lines[4 * k - 2]
TextLine(lines, k)   == lines[4 * k - 1]

WellFormed(lines) ==
    lines # <<>> =>
        /\ Len(lines) % 4 = 3
        /\ \A k \in 1..(EntryCount(lines) - 1) : lines[4 * k] = <<>>

DigitValue(c) == (CHOOSE d \in 1..10 : DigitChars[d] = c) - 1

RECURSIVE ParseNat(_)
ParseNat(s) ==
    IF s = <<>> THEN 0
    ELSE 10 * ParseNat(SubSeq(s, 1, Len(s) - 1)) + DigitValue(s[Len(s)])

AllDigits(s) == s # <<>> /\ \A i \in 1..Len(s) : InSeq(s[i], DigitChars)

ArrowAt(line) ==
    CHOOSE i \in 1..(Len(line) - 1) : line[i] = "-" /\ line[i + 1] = "-"
StartStamp(line) == SubSeq(line, 1, ArrowAt(line) - 2)
EndStamp(line)   == SubSeq(line, ArrowAt(line) + 4, Len(line))

FramesLoaded ==
    "cmd: ffprobe" \in logs /\ outcome.msg # "Command failed: ffprobe"
ImagesListed ==
    "cmd: ffmpeg" \in logs /\ outcome.msg # "Command failed: ffmpeg"

\* build_srt has run
Assembled ==
    \/ pc \in {"write", "validate"}
    \/ pc \in {"returning", "exited"} /\ ImagesListed /\ images # <<>>

TimingOf(frame) ==
    seconds_to_srt_time(frame.start) \o <<" ","-","-",">"," ">>
        \o seconds_to_srt_time(frame.end)

\* The positions whose image was recognised to some text and whose frame
\* has two different time stamps
KeptPairs ==
    { i \in 1..Count :
        /\ rawOcr[i].status = "ok"
        /\ ocr_image(rawOcr[i].stdout) # <<>>
        /\ seconds_to_srt_time(frames[i].start) # seconds_to_srt_time(frames[i].end) }

\* `lines` holds one caption for each kept position, in order, with the
\* timing of the frame and the text of the image at that position
CaptionsOfKeptPairs(lines) ==
    \A kept \in {Sorted(KeptPairs)} :
        /\ (lines = <<>>) <=> (kept = <<>>)
        /\ lines # <<>> => Len(lines) = 4 * Len(kept) - 1
        /\ lines # <<>> =>
             \A k \in 1..Len(kept) :
                /\ TimingLine(lines, k) = TimingOf(frames[kept[k]])
                /\ TextLine(lines, k) = ocr_image(rawOcr[kept[k]].stdout)

---------------------------------------------------------------------------
(* C1: no caption of the assembled SRT has a text that is empty once it is *)
(* trimmed, and none has a start time stamp equal to its end time stamp;   *)
(* the pairs in that case are left out.                                    *)
C1_NoEmptyTextNoZeroLength ==
    Assembled =>
        /\ WellFormed(srt_content)
        /\ \A k \in 1..EntryCount(srt_content) :
              /\ Strip(TextLine(srt_content, k)) # <<>>
              /\ \A line \in {TimingLine(srt_content, k)} :
                    StartStamp(line) # EndStamp(line)
        /\ EntryCount(srt_content) = Cardinality(KeptPairs)

C1_Witness ==
    /\ pc = "write"
    /\ EntryCount(srt_content) = 1
    /\ \E i \in 1..Count : rawOcr[i].status = "ok" /\ texts[i] = <<>>
    /\ \E j \in 1..Count :
          /\ texts[j] # <<>>
          /\ frames[j].start # frames[j].end
          /\ seconds_to_srt_time(frames[j].start) = seconds_to_srt_time(frames[j].end)

(* C2: the numbers of the captions of the assembled SRT, in output order,  *)
(* are 1, 2, ..., k whatever pairs were left out and wherever.             *)
C2_NumbersContiguous ==
    Assembled =>
        \A k \in 1..EntryCount(srt_content) :
           /\ AllDigits(NumberLine(srt_content, k))
           /\ ParseNat(NumberLine(srt_content, k)) = k

C2_Witness ==
    /\ pc = "write"
    /\ Count = 3
    /\ 2 \notin KeptPairs
    /\ EntryCount(srt_content) = 2
    /\ NumberLine(srt_content, 2) = <<"2">>

(* C3 as claimed: whenever the timing sequence and the image sequence      *)
(* differ in length, the count-mismatch warning is logged and the first    *)
(* min(len, len) positional pairs, and no others, are recognised and       *)
(* assembled.                                                              *)
C3_AsClaimed ==
    (ImagesListed /\ Len(images) # Len(frames)) =>
        /\ "warn: frame count mismatch" \in logs
        /\ Len(rawOcr) <= Count
        /\ \A i \in 1..Len(rawOcr) : rawOcr[i].image = images[i]
        /\ Assembled => Len(rawOcr) = Count /\ CaptionsOfKeptPairs(srt_content)

(* C3 as amended: the same, when at least one image was extracted.         *)
C3_MinPairsPositional ==
    (ImagesListed /\ images # <<>> /\ Len(images) # Len(frames)) =>
        /\ "warn: frame count mismatch" \in logs
        /\ Len(rawOcr) <= Count
        /\ \A i \in 1..Len(rawOcr) : rawOcr[i].image = images[i]
        /\ Assembled => Len(rawOcr) = Count /\ CaptionsOfKeptPairs(srt_content)

C3_Witness ==
    /\ pc = "exited"
    /\ exitCode = 0
    /\ Len(images) = 3
    /\ Len(frames) = 2
    /\ Len(rawOcr) = 2
    /\ EntryCount(outFile.content) = 2

(* C4: with the installed set known, resolve_language returns the          *)
(* normalized tag when it is installed, the default with a warning exactly *)
(* when it is not and the default is, and raises JobError exactly when     *)
(* neither is installed.                                                   *)
C4_FallbackExactly ==
    (resolution.exc # "pending" /\ tessRun.status = "ok") =>
        LET normalized == normalize_language(requested)
            installed  == list_tesseract_languages(tessRun).value
        IN  /\ InSeq(normalized, installed) =>
                 /\ resolution.exc = "none"
                 /\ resolution.lang = normalized
                 /\ ~resolution.warned
            /\ (~InSeq(normalized, installed) /\ InSeq(DEFAULT_LANG, installed)) =>
                 /\ resolution.exc = "none"
                 /\ resolution.lang = DEFAULT_LANG
                 /\ resolution.warned
            /\ (~InSeq(normalized, installed) /\ ~InSeq(DEFAULT_LANG, installed)) =>
                 /\ resolution.exc = "JobError"
                 /\ resolution.warned

C4_Witness ==
    /\ resolution.exc = "none"
    /\ resolution.warned
    /\ resolution.lang = DEFAULT_LANG
    /\ normalize_language(requested) = Fra
    /\ InSeq(Jpn, resolution.available)

\* A tag that normalization leaves alone: lower case, trimmed, not empty and
\* not a key of the alias table
Canonical(tag) ==
    /\ tag # None
    /\ tag # <<>>
    /\ Lower(tag) = tag
    /\ Strip(tag) = tag
    /\ tag \notin AliasKeys

(* C5 as claimed: resolving any tag of the installed set returns that tag. *)
C5_AsClaimed ==
    (resolution.exc # "pending" /\ InSeq(requested, resolution.available)) =>
        resolution.exc = "none" /\ resolution.lang = requested

(* C5 as amended: resolving a canonical tag of the installed set returns   *)
(* that tag, and resolving what a successful resolution returned returns   *)
(* it again.                                                               *)
C5_IdempotentOnCanonical ==
    /\ (resolution.exc # "pending" /\ InSeq(requested, resolution.available)
          /\ Canonical(requested)) =>
            resolution.exc = "none" /\ resolution.lang = requested
    /\ resolution.exc = "none" =>
         LET again == resolve_language(resolution.lang, tessRun)
         IN  again.exc = "none" /\ again.lang = resolution.lang

C5_Witness ==
    /\ resolution.exc = "none"
    /\ requested = Jpn
    /\ resolution.lang = Jpn
    /\ InSeq(DEFAULT_LANG, resolution.available)

Unsupported == JobType \notin SUPPORTED_TYPES
NoFrames    == FramesLoaded /\ frames = <<>>
NoImages    == ImagesListed /\ images = <<>>
EmptyOutput == Assembled /\ Blank(srt_content)

\* The guards of the actions: the positions at which some step of the run
\* can be taken
CanStep ==
    \/ pc \in {"start", "check_output", "check_input", "resolve", "load_frames",
                "mktemp", "extract", "write", "validate", "returning"}
    \/ pc = "ocr" /\ Len(texts) <= Count

(* C6: a run goes on until it exits, and exits once: with 2 exactly when   *)
(* the type is unsupported, no frame was found, no image was extracted or  *)
(* the assembled output is blank; with a status that is neither 0 nor 2    *)
(* exactly when an exception ended it; with 0 otherwise.                   *)
C6_ExitStatus ==
    /\ pc # "exited" => CanStep
    /\ pc = "exited" =>
         LET needsReview == Unsupported \/ NoFrames \/ NoImages \/ EmptyOutput
             failed      == outcome.kind = "raise"
         IN  /\ exitCode = 2 <=> needsReview
             /\ exitCode \notin {0, 2} <=> failed
             /\ exitCode = 0 <=> (~needsReview /\ ~failed)
             /\ failed => outcome.exc \in {"JobError", "CalledProcessError", "OSError"}

C6_Witness ==
    /\ pc = "exited"
    /\ exitCode = 2
    /\ Len(rawOcr) = 3
    /\ EmptyOutput

(* C7: after a run that failed, the output path holds what it held before  *)
(* the run or the complete captions, never a part of them and never an     *)
(* empty file; after a run that returned 0 without --dry-run it holds the  *)
(* complete captions of that run.                                          *)
C7_WhollyOrNotAtAll ==
    pc = "exited" =>
        /\ exitCode = 1 =>
             \/ outFile \in InitialOutFiles
             \/ /\ outFile.kind = "regular"
                /\ srt_content # <<>>
                /\ outFile.content = srt_content
        /\ (exitCode = 0 /\ ~dry_run) =>
             /\ outFile.kind = "regular"
             /\ outFile.content = srt_content
             /\ CaptionsOfKeptPairs(outFile.content)

(* C8: when the recognition of an image fails, its text is empty, every    *)
(* image up to the count is still recognised in order, the run is not      *)
(* ended by it, and the captions assembled and written are those of the    *)
(* other positions, each with the timing of its own frame.                 *)
C8_FailureTolerated ==
    (\E i \in 1..Len(rawOcr) : rawOcr[i].status = "failed") =>
        /\ Len(texts) = Len(rawOcr)
        /\ \A i \in 1..Len(rawOcr) :
              /\ rawOcr[i].image = images[i]
              /\ rawOcr[i].status = "failed" => texts[i] = <<>>
        /\ pc = "ocr" => Len(texts) <= Count
        /\ pc # "ocr" => Len(rawOcr) = Count /\ Assembled
        /\ Assembled => CaptionsOfKeptPairs(srt_content)
        /\ (pc = "exited" /\ exitCode = 0) => outFile.content = srt_content

C8_Witness ==
    /\ pc = "exited"
    /\ exitCode = 0
    /\ Count = 3
    /\ rawOcr[2].status = "failed"
    /\ EntryCount(outFile.content) = 2
    /\ TimingLine(outFile.content, 2) = TimingOf(frames[3])
    /\ frames[3] # frames[2]

(* C9: when process_job has ended, by a return or by an exception, the     *)
(* temporary directory and the images in it are gone.                      *)
C9_TempDirReleased ==
    pc \in {"validate", "returning", "exited"} => (~tempdir /\ tempFiles = {})

C9_Witness ==
    /\ pc = "exited"
    /\ outcome.msg = "write failed"
    /\ Len(images) = 3
    /\ ~tempdir
    /\ tempFiles = {}

(* C10: under --dry-run no temporary directory or image exists at any      *)
(* step, ffmpeg and the recognition are never run, the output path is left *)
(* as it was, and a run that passed validation, resolved a language and    *)
(* found frames exits with 0.                                              *)
C10_DryRunNoSideEffect ==
    dry_run =>
        /\ ~tempdir
        /\ tempFiles = {}
        /\ "cmd: ffmpeg" \notin logs
        /\ "cmd: tesseract" \notin logs
        /\ images = <<>> /\ rawOcr = <<>>
        /\ outFile \in InitialOutFiles
        /\ (pc = "exited" /\ ~Unsupported /\ outcome.kind # "raise" /\ frames # <<>>)
             => exitCode = 0

C10_Witness ==
    /\ pc = "exited"
    /\ dry_run
    /\ exitCode = 0
    /\ Len(frames) = 2
    /\ "info: dry run successful" \in logs
    /\ outFile.kind = "regular"

====
